---- MODULE Spec2Model ----
(***************************************************************************)
(* Model of Tribler/Core/DownloadState.py: the construction of a           *)
(* DownloadState snapshot (status/progress derivation and the projection   *)
(* of the piece bitmap onto the selected file ranges) and its accessors.   *)
(*                                                                         *)
(* Python values are represented as follows.                               *)
(*   - None, in a status or error position, is the string "None".          *)
(*   - Floats (progress, frac, completed) are counted in tenths: 0 is 0.0, *)
(*     5 is 0.5 and 10 is 1.0.                                             *)
(*   - An optional list (filepieceranges, stats['spew']) is a record       *)
(*     [isNone, list].                                                     *)
(*   - A list object that can be reached through two references is a       *)
(*     variable of its own (have); a reference to it is the tag "alias".   *)
(*   - A range (t, tl, f) is the pair <<t, tl>>; the file name f is never  *)
(*     read by the code.                                                   *)
(***************************************************************************)
EXTENDS Integers, Sequences, FiniteSets, TLC

\* ------------------------------------------------------------- bounds
MaxPieces == 2
MaxRanges == 2
MaxPeers == 2

\* ---------------------------------------------------------- constants
None == "None"
NoneInt == -1
Zero == 0
One == 10

DLSTATUS_WAITING4HASHCHECK == "DLSTATUS_WAITING4HASHCHECK"
DLSTATUS_HASHCHECKING == "DLSTATUS_HASHCHECKING"
DLSTATUS_DOWNLOADING == "DLSTATUS_DOWNLOADING"
DLSTATUS_SEEDING == "DLSTATUS_SEEDING"
DLSTATUS_STOPPED_ON_ERROR == "DLSTATUS_STOPPED_ON_ERROR"

\* ------------------------------------------------------------- state
VARIABLES
    pc,      \* "new": arguments chosen, constructor not yet run;
             \* "built": the constructor returned; "raised": it raised
    args,    \* the constructor's arguments status, error, progress,
             \* filepieceranges
    stats,   \* the stats dict handed to the constructor: [isNone, frac, spew]
    have,    \* the list object statsobj.have of that dict
    self,    \* the fields of the DownloadState object
    first,   \* what the accessors returned at their first call
    last,    \* what the accessors returned at their latest call
    given    \* the stats dict and its have list as they were when the
             \* constructor was called

vars == <<pc, args, stats, have, self, first, last, given>>

\* ----------------------------------------------------- Python helpers
Max(a, b) == IF a >= b THEN a ELSE b

\* [False] * n
ListOfFalse(n) == [i \in 1..Max(0, n) |-> FALSE]

\* whether lst[i] is a valid index expression (negative indices wrap)
PyInRange(lst, i) == (0 - Len(lst)) <= i /\ i < Len(lst)

\* lst[i] for a valid i
PyGet(lst, i) == IF i >= 0 THEN lst[i + 1] ELSE lst[Len(lst) + i + 1]

\* ------------------------------------------------ DownloadState.__init__
\* The fields the constructor assigns; haveslice is never assigned on the
\* branches that leave self.stats None.
Unset == [kind |-> "unset", own |-> <<>>]
Alias == [kind |-> "alias", own |-> <<>>]
Own(lst) == [kind |-> "own", own |-> lst]

Fields(status, error, progress, statsref, haveslice) ==
    [status |-> status, error |-> error, progress |-> progress,
     stats |-> statsref, haveslice |-> haveslice]

Returned(fields) == [raised |-> FALSE, self |-> fields]
Raised == [raised |-> TRUE, self |-> Fields(None, None, Zero, None, Unset)]

\* stats is None
BranchNoStats(status, error, progress) ==
    Fields(IF error # None THEN DLSTATUS_STOPPED_ON_ERROR ELSE status,
           error, progress, None, Unset)

\* elif error is not None
BranchError(error) ==
    Fields(DLSTATUS_STOPPED_ON_ERROR, error, Zero, None, Unset)

\* variant: the progress of a status override is always the stats' frac
BranchStatus_AlwaysFrac(status, error, frac) ==
    Fields(status, error, frac, None, Unset)

\* elif status is not None
BranchStatus(status, error, frac) ==
    Fields(status, error,
           IF status = DLSTATUS_WAITING4HASHCHECK THEN Zero ELSE frac,
           None, Unset)

\* variant: a statistics tick is always reported as downloading
StatusFromFrac_AlwaysDownloading(frac) == DLSTATUS_DOWNLOADING

\* else: status and progress copied from the stats
StatusFromFrac(frac) ==
    IF frac = One THEN DLSTATUS_SEEDING ELSE DLSTATUS_DOWNLOADING

\* variant: the ranges are counted as if tl were inclusive
RECURSIVE TotalPieces_Inclusive(_)
TotalPieces_Inclusive(ranges) ==
    IF ranges = <<>> THEN 0
    ELSE (Head(ranges)[2] - Head(ranges)[1] + 1)
         + TotalPieces_Inclusive(Tail(ranges))

\* totalpieces: the sum of tl-t over the ranges
RECURSIVE TotalPieces(_)
TotalPieces(ranges) ==
    IF ranges = <<>> THEN 0
    ELSE (Head(ranges)[2] - Head(ranges)[1]) + TotalPieces(Tail(ranges))

\* the loop state: haveslice, haveall, index, and whether an IndexError
\* was raised
LoopStart(totalpieces) ==
    [haveslice |-> ListOfFalse(totalpieces), haveall |-> TRUE, index |-> 0,
     raised |-> FALSE]

\* variant: index is not advanced, every flag is written to the same slot
CopyPiece_StuckIndex(lst, piece, st) ==
    IF ~PyInRange(lst, piece) \/ ~PyInRange(st.haveslice, st.index)
    THEN [st EXCEPT !.raised = TRUE]
    ELSE [haveslice |-> [st.haveslice EXCEPT ![st.index + 1] = PyGet(lst, piece)],
          haveall |-> IF st.haveall /\ PyGet(lst, piece) = FALSE
                      THEN FALSE ELSE st.haveall,
          index |-> st.index,
          raised |-> FALSE]

\* variant: haveall is not cleared by an incomplete piece
CopyPiece_KeepHaveAll(lst, piece, st) ==
    IF ~PyInRange(lst, piece) \/ ~PyInRange(st.haveslice, st.index)
    THEN [st EXCEPT !.raised = TRUE]
    ELSE [haveslice |-> [st.haveslice EXCEPT ![st.index + 1] = PyGet(lst, piece)],
          haveall |-> st.haveall,
          index |-> st.index + 1,
          raised |-> FALSE]

\* one iteration of the inner loop body, for a given piece
CopyPiece(lst, piece, st) ==
    IF ~PyInRange(lst, piece) \/ ~PyInRange(st.haveslice, st.index)
    THEN [st EXCEPT !.raised = TRUE]
    ELSE [haveslice |-> [st.haveslice EXCEPT ![st.index + 1] = PyGet(lst, piece)],
          haveall |-> IF st.haveall /\ PyGet(lst, piece) = FALSE
                      THEN FALSE ELSE st.haveall,
          index |-> st.index + 1,
          raised |-> FALSE]

\* for piece in range(t,tl)
RECURSIVE PieceLoop(_, _, _, _)
PieceLoop(lst, piece, tl, st) ==
    IF st.raised \/ piece >= tl THEN st
    ELSE PieceLoop(lst, piece + 1, tl, CopyPiece(lst, piece, st))

\* for t,tl,f in self.filepieceranges
RECURSIVE RangeLoop(_, _, _)
RangeLoop(lst, ranges, st) ==
    IF st.raised \/ ranges = <<>> THEN st
    ELSE RangeLoop(lst, Tail(ranges),
                   PieceLoop(lst, Head(ranges)[1], Head(ranges)[2], st))

\* variant: only the status is overwritten, the progress is left alone
HaveAllOverride_StatusOnly(fields, haveall) ==
    IF haveall
    THEN [fields EXCEPT !.status = DLSTATUS_SEEDING]
    ELSE fields

\* if haveall: status and progress are overwritten
HaveAllOverride(fields, haveall) ==
    IF haveall
    THEN [fields EXCEPT !.status = DLSTATUS_SEEDING, !.progress = One]
    ELSE fields

\* the projection onto the selected ranges and what follows it
ProjectRanges(fields, lst, ranges) ==
    LET st == RangeLoop(lst, ranges, LoopStart(TotalPieces(ranges)))
    IN  IF st.raised THEN Raised
        ELSE Returned(HaveAllOverride(
                 [fields EXCEPT !.haveslice = Own(st.haveslice)], st.haveall))

BranchStats(frac, lst, ranges) ==
    LET fields == Fields(StatusFromFrac(frac), None, frac, "dict", Unset)
    IN  IF ranges.isNone
        THEN Returned([fields EXCEPT !.haveslice = Alias])
        ELSE ProjectRanges(fields, lst, ranges.list)

\* variant: the status override is tested before the error
DownloadState_init_StatusFirst(a, st, lst) ==
    IF st.isNone THEN Returned(BranchNoStats(a.status, a.error, a.progress))
    ELSE IF a.status # None THEN Returned(BranchStatus(a.status, a.error, st.frac))
    ELSE IF a.error # None THEN Returned(BranchError(a.error))
    ELSE BranchStats(st.frac, lst, a.filepieceranges)

DownloadState_init(a, st, lst) ==
    IF st.isNone THEN Returned(BranchNoStats(a.status, a.error, a.progress))
    ELSE IF a.error # None THEN Returned(BranchError(a.error))
    ELSE IF a.status # None THEN Returned(BranchStatus(a.status, a.error, st.frac))
    ELSE BranchStats(st.frac, lst, a.filepieceranges)

\* ------------------------------------------------------------ accessors
get_progress == self.progress

get_status == self.status

get_error == self.error

\* variant: a withheld peer list is counted like an empty one
get_num_seeds_peers_EmptyWhenWithheld ==
    IF self.stats = None
    THEN <<NoneInt, NoneInt>>
    ELSE LET total == Len(stats.spew.list)
             seeds == Len(SelectSeq(stats.spew.list, LAMBDA c : c = One))
         IN  <<seeds, total - seeds>>

get_num_seeds_peers ==
    IF self.stats = None \/ stats.spew.isNone
    THEN <<NoneInt, NoneInt>>
    ELSE LET total == Len(stats.spew.list)
             seeds == Len(SelectSeq(stats.spew.list, LAMBDA c : c = One))
         IN  <<seeds, total - seeds>>

\* the list self.haveslice refers to
Deref(ref) == IF ref.kind = "alias" THEN have ELSE ref.own

get_pieces_complete ==
    IF self.stats = None THEN <<>> ELSE Deref(self.haveslice)

\* --------------------------------------------------------------- inputs
Fracs == {Zero, 5, One}
Statuses == {None, DLSTATUS_WAITING4HASHCHECK, DLSTATUS_HASHCHECKING}
Errors == {None, "err"}
Bitmaps == UNION {[1..n -> BOOLEAN] : n \in 1..MaxPieces}
RangeSet == (0..(MaxPieces + 1)) \X (0..(MaxPieces + 1))
RangeLists(n) == UNION {[1..k -> RangeSet] : k \in 0..n}
NoList == [isNone |-> TRUE, list |-> <<>>]
Some(lst) == [isNone |-> FALSE, list |-> lst]
Optional(S) == {NoList} \cup {Some(lst) : lst \in S}
Spews == Optional(UNION {[1..n -> {5, One}] : n \in 0..MaxPeers})
NoStats == [isNone |-> TRUE, frac |-> Zero, spew |-> NoList]

NotRead == [read |-> FALSE, pieces |-> <<>>, status |-> None, progress |-> Zero]

\* a statistics tick: no status, no error, any list of selected ranges
InitTick ==
    /\ args \in [status : {None}, error : {None}, progress : {5},
                 filepieceranges : Optional(RangeLists(MaxRanges))]
    /\ stats \in [isNone : {FALSE}, frac : Fracs, spew : {NoList}]
    /\ have \in Bitmaps

\* any combination of status, error, progress and stats, with no selected
\* ranges, an empty list of them, or the first piece selected
InitAny ==
    /\ args \in [status : Statuses, error : Errors, progress : {Zero, 5},
                 filepieceranges : Optional({<<>>, <<<<0, 1>>>>})]
    /\ \/ stats = NoStats /\ have = <<>>
       \/ /\ stats \in [isNone : {FALSE}, frac : Fracs, spew : Spews]
          /\ have \in Bitmaps

Init ==
    /\ pc = "new"
    /\ InitAny \/ InitTick
    /\ self = Raised.self
    /\ first = NotRead
    /\ last = NotRead
    /\ given = [stats |-> stats, have |-> have]

\* -------------------------------------------------------------- actions
\* DownloadState(download, status, error, progress, stats, filepieceranges)
Construct ==
    /\ pc = "new"
    /\ LET r == DownloadState_init(args, stats, have)
       IN  /\ pc' = IF r.raised THEN "raised" ELSE "built"
           /\ self' = r.self
    /\ UNCHANGED <<args, stats, have, first, last, given>>

\* an observer calls get_pieces_complete(), get_status() and get_progress()
Read ==
    /\ pc = "built"
    /\ last' = [read |-> TRUE, pieces |-> get_pieces_complete,
                status |-> get_status, progress |-> get_progress]
    /\ first' = IF first.read THEN first ELSE last'
    /\ UNCHANGED <<pc, args, stats, have, self, given>>

\* the engine, which goes on downloading after the snapshot was handed out,
\* completes a piece; its flag is set in the list statsobj.have of the
\* stats dict the snapshot was built from
EngineSetPiece ==
    /\ pc = "built"
    /\ ~stats.isNone
    /\ \E i \in 1..Len(have) :
          /\ ~have[i]
          /\ have' = [have EXCEPT ![i] = TRUE]
    /\ UNCHANGED <<pc, args, stats, self, first, last, given>>

\* the engine raises stats['frac']
EngineSetFrac ==
    /\ pc = "built"
    /\ ~stats.isNone
    /\ \E f \in Fracs :
          /\ f > stats.frac
          /\ stats' = [stats EXCEPT !.frac = f]
    /\ UNCHANGED <<pc, args, have, self, first, last, given>>

Next == Construct \/ Read \/ EngineSetPiece \/ EngineSetFrac

Spec == Init /\ [][Next]_vars

\* ------------------------------------------------------------ properties
Built == pc = "built"

\* a statistics tick: stats supplied, no error, no status override
PureTick ==
    /\ ~given.stats.isNone
    /\ args.error = None
    /\ args.status = None

RangesGiven == ~args.filepieceranges.isNone
ranges == args.filepieceranges.list
frac == given.stats.frac

AllTrue(flags) == \A i \in 1..Len(flags) : flags[i]

\* the sum over the ranges of end - start
SumOfWidths(rs) ==
    LET RECURSIVE upto(_)
        upto(k) == IF k = 0 THEN 0 ELSE upto(k - 1) + rs[k][2] - rs[k][1]
    IN  upto(Len(rs))

\* the slices lst[start..end-1] of the ranges, one after the other
RECURSIVE ConcatSlices(_, _)
ConcatSlices(lst, rs) ==
    IF rs = <<>> THEN <<>>
    ELSE SubSeq(lst, rs[1][1] + 1, rs[1][2]) \o ConcatSlices(lst, Tail(rs))

WellFormed(lst, rs) ==
    \A k \in 1..Len(rs) : 0 <= rs[k][1] /\ rs[k][1] <= rs[k][2] /\ rs[k][2] <= Len(lst)

\* some range ends past the bitmap or has start > end
Malformed(lst, rs) ==
    \E k \in 1..Len(rs) : rs[k][2] > Len(lst) \/ rs[k][1] > rs[k][2]

\* some piece inside the selected ranges was incomplete at construction
SelectedIncomplete(lst, rs) ==
    \E k \in 1..Len(rs) : \E piece \in rs[k][1]..(rs[k][2] - 1) :
        piece + 1 \in 1..Len(lst) /\ ~lst[piece + 1]

\* C1 as stated: with an error supplied the snapshot is STOPPED_ON_ERROR,
\* its progress is 0.0 and get_error() is the error, whatever else is supplied.
C1_Original ==
    (Built /\ args.error # None) =>
        /\ get_status = DLSTATUS_STOPPED_ON_ERROR
        /\ get_progress = Zero
        /\ get_error = args.error

\* C1 amended: with an error supplied the snapshot is STOPPED_ON_ERROR and
\* get_error() is the error; its progress is 0.0 when stats are supplied and
\* the progress argument when they are not.
C1_ErrorForcesStopped ==
    (Built /\ args.error # None) =>
        /\ get_status = DLSTATUS_STOPPED_ON_ERROR
        /\ get_error = args.error
        /\ get_progress = IF given.stats.isNone THEN args.progress ELSE Zero

C1_Witness ==
    /\ Built
    /\ args.error # None
    /\ args.status = DLSTATUS_HASHCHECKING
    /\ ~given.stats.isNone
    /\ frac = One
    /\ get_status = DLSTATUS_STOPPED_ON_ERROR
    /\ get_progress = Zero

\* C2 as stated: for a statistics tick, if every flag get_pieces_complete()
\* returns is true then the status is SEEDING and the progress 1.0, with
\* selected ranges and without.
C2_Original ==
    (Built /\ PureTick /\ AllTrue(get_pieces_complete)) =>
        /\ get_status = DLSTATUS_SEEDING
        /\ get_progress = One

\* C2 amended: for a statistics tick with selected ranges given, if every flag
\* get_pieces_complete() returns is true then the status is SEEDING and the
\* progress 1.0.
C2_SelectedComplete ==
    (Built /\ PureTick /\ RangesGiven /\ AllTrue(get_pieces_complete)) =>
        /\ get_status = DLSTATUS_SEEDING
        /\ get_progress = One

C2_Witness ==
    /\ Built /\ PureTick /\ RangesGiven
    /\ get_pieces_complete # <<>>
    /\ AllTrue(get_pieces_complete)
    /\ ~AllTrue(given.have)
    /\ frac # One
    /\ get_status = DLSTATUS_SEEDING
    /\ get_progress = One

\* C3 as stated: after construction every call of get_pieces_complete(),
\* get_status() and get_progress() returns what the first call returned,
\* whatever the engine does to the bitmap or the stats in between.
C3_Original == (Built /\ first.read) => last = first

\* C4 as stated: for a statistics tick the progress is frac and the status is
\* SEEDING if frac is 1.0 and DOWNLOADING otherwise, for every value of the
\* selected ranges.
C4_Original ==
    (Built /\ PureTick) =>
        /\ get_progress = frac
        /\ get_status = IF frac = One THEN DLSTATUS_SEEDING ELSE DLSTATUS_DOWNLOADING

\* C4 amended: for a statistics tick the progress is frac and the status is
\* SEEDING if frac is 1.0 and DOWNLOADING otherwise when the selected ranges
\* are None or hold an incomplete piece; when ranges are given and hold no
\* incomplete piece the status is SEEDING and the progress 1.0.
C4_FracDecides ==
    (Built /\ PureTick) =>
        IF ~RangesGiven \/ SelectedIncomplete(given.have, ranges)
        THEN /\ get_progress = frac
             /\ get_status = IF frac = One THEN DLSTATUS_SEEDING
                             ELSE DLSTATUS_DOWNLOADING
        ELSE /\ get_progress = One
             /\ get_status = DLSTATUS_SEEDING

C4_Witness ==
    /\ Built /\ PureTick /\ RangesGiven
    /\ SelectedIncomplete(given.have, ranges)
    /\ frac = 5
    /\ get_progress = 5
    /\ get_status = DLSTATUS_DOWNLOADING

\* C5 as stated: for a snapshot built with stats supplied, the length of
\* get_pieces_complete() is the sum of end - start over the selected ranges,
\* or the length of the bitmap when the ranges are None.
C5_Original ==
    (Built /\ ~given.stats.isNone) =>
        Len(get_pieces_complete) =
            IF RangesGiven THEN SumOfWidths(ranges) ELSE Len(have)

\* C5 amended: for a snapshot built from a statistics tick (no error, no status
\* override) the length of get_pieces_complete() is the sum of end - start over
\* the selected ranges, or 0 if that sum is negative, and the length of the
\* bitmap when the ranges are None; for a snapshot built with an error or a
\* status override get_pieces_complete() is empty.
C5_Length ==
    Built =>
        Len(get_pieces_complete) =
            IF ~PureTick THEN 0
            ELSE IF RangesGiven THEN Max(0, SumOfWidths(ranges))
            ELSE Len(have)

C5_Witness ==
    /\ Built /\ PureTick /\ RangesGiven
    /\ Len(ranges) = 2
    /\ ranges[1][2] - ranges[1][1] = 2
    /\ ranges[2][2] - ranges[2][1] = 1
    /\ Len(get_pieces_complete) = 3

\* C6: for a statistics tick with well-formed ranges the constructor returns
\* and get_pieces_complete() is the slices have[start..end-1] of the ranges,
\* in range order; with ranges None it is the bitmap itself.
C6_Projection ==
    (pc # "new" /\ PureTick) =>
        IF ~RangesGiven THEN Built /\ get_pieces_complete = have
        ELSE WellFormed(given.have, ranges) =>
                 /\ Built
                 /\ get_pieces_complete = ConcatSlices(given.have, ranges)

C6_Witness ==
    /\ Built /\ PureTick /\ RangesGiven
    /\ WellFormed(given.have, ranges)
    /\ Len(ranges) = 2
    /\ ranges[1][1] > ranges[2][1]
    /\ Len(get_pieces_complete) = 3
    /\ ~AllTrue(get_pieces_complete)
    /\ \E i \in 1..3 : get_pieces_complete[i]

\* C7 as stated: a statistics tick whose selected ranges hold a range that ends
\* past the bitmap or has start > end makes the constructor raise; no snapshot
\* is built.
C7_Original ==
    (pc # "new" /\ PureTick /\ RangesGiven /\ Malformed(given.have, ranges)) =>
        pc = "raised"

\* C8 as stated: with no error and a status override the status is the
\* override; the progress is 0.0 for WAITING4HASHCHECK, with or without stats,
\* and frac for any other override when stats are supplied.
C8_Original ==
    (Built /\ args.error = None /\ args.status # None) =>
        /\ get_status = args.status
        /\ args.status = DLSTATUS_WAITING4HASHCHECK => get_progress = Zero
        /\ (args.status # DLSTATUS_WAITING4HASHCHECK /\ ~given.stats.isNone)
               => get_progress = frac

\* C8 amended: with no error and a status override the status is the override;
\* when stats are supplied the progress is 0.0 for WAITING4HASHCHECK and frac
\* for any other override; when stats are not supplied the progress is the
\* progress argument.
C8_Override ==
    (Built /\ args.error = None /\ args.status # None) =>
        /\ get_status = args.status
        /\ get_progress =
               IF given.stats.isNone THEN args.progress
               ELSE IF args.status = DLSTATUS_WAITING4HASHCHECK THEN Zero
               ELSE frac

C8_Witness ==
    /\ Built
    /\ args.error = None
    /\ args.status = DLSTATUS_WAITING4HASHCHECK
    /\ ~given.stats.isNone
    /\ frac = 5
    /\ args.progress = 5
    /\ get_status = DLSTATUS_WAITING4HASHCHECK
    /\ get_progress = Zero

\* C9: for a statistics tick with selected ranges given, if some flag
\* get_pieces_complete() returns is false then the progress is frac and the
\* status is SEEDING if frac is 1.0 and DOWNLOADING otherwise.
C9_NoOverride ==
    (/\ Built /\ PureTick /\ RangesGiven
     /\ \E i \in 1..Len(get_pieces_complete) : ~get_pieces_complete[i]) =>
        /\ get_progress = frac
        /\ get_status = IF frac = One THEN DLSTATUS_SEEDING ELSE DLSTATUS_DOWNLOADING

C9_Witness ==
    /\ Built /\ PureTick /\ RangesGiven
    /\ Len(get_pieces_complete) >= 2
    /\ get_pieces_complete[1]
    /\ ~get_pieces_complete[Len(get_pieces_complete)]
    /\ frac = 5
    /\ get_progress = 5
    /\ get_status = DLSTATUS_DOWNLOADING

\* C10: get_num_seeds_peers() is (None, None) exactly when the snapshot holds
\* no stats (none supplied, or an error or status override supplied) or the
\* peer list is None; otherwise it is (s, p) with s the number of peers whose
\* completed is 1.0 and s + p the length of the peer list.
C10_SeedsPeers ==
    Built =>
        LET unknown == ~PureTick \/ stats.spew.isNone
            peers == stats.spew.list
        IN  /\ (get_num_seeds_peers = <<NoneInt, NoneInt>>) <=> unknown
            /\ ~unknown =>
                 /\ get_num_seeds_peers[1] =
                        Cardinality({i \in 1..Len(peers) : peers[i] = One})
                 /\ get_num_seeds_peers[1] + get_num_seeds_peers[2] = Len(peers)

C10_Witness ==
    /\ Built /\ PureTick
    /\ ~stats.spew.isNone
    /\ stats.spew.list = <<>>
    /\ get_num_seeds_peers = <<0, 0>>

====
